---- MODULE Spec2Model ----
(***************************************************************************)
(* Model of data_providers/cifar.py: the CifarDataSet epoch/batch engine   *)
(* (shuffle, augmentation, normalization, next_batch with epoch rollover)  *)
(* and the CifarDataProvider constructor that builds the train,            *)
(* validation and test datasets.                                           *)
(*                                                                         *)
(* An image is a record [id, px, shape, aug]: id names the example of the  *)
(* decoded corpus, px names the arithmetic applied to its pixels, shape    *)
(* is the numpy shape, aug the crop offsets and flip of an augmentation.   *)
(* A label is the id of the example it was decoded with, so that the       *)
(* alignment of the two parallel arrays can be observed.                   *)
(***************************************************************************)
EXTENDS Integers, Sequences, FiniteSets, TLC

\* ---- bounds of the model ------------------------------------------------
MaxN == 3              \* largest decoded training corpus
MaxCalls == 4          \* next_batch calls recorded per dataset
MaxRestarts == 2       \* the per-call restart count saturates here
MaxProviderOps == 2    \* operations a client of all three handles performs
MaxPlainN == 20        \* largest corpus served without shuffling
MaxFixedCalls == 7     \* next_batch calls of a fixed-batch-size training loop

VARIABLES
    train_params,       \* the dict handed to CifarDataProvider.__init__
    data_augmentation,  \* class attribute of the provider variant
    n_train, n_test,    \* sizes of the decoded train / test corpora
    pc,                 \* "new", "ready" (constructed) or "failed" (raised)
    error,              \* the exception that ended construction, or "none"
    ds,                 \* heap of CifarDataSet objects, by allocation order
    train, validation, test,   \* provider attributes: object id or NoObj
    call,               \* the next_batch call in flight / its return value
    ncalls,             \* history: next_batch calls returned, per object
    uniform,            \* history: the one batch size used so far, per object
    served,             \* history: batches returned in the current epoch
    nops                \* history: client operations started (saturating)

vars == <<train_params, data_augmentation, n_train, n_test, pc, error, ds,
          train, validation, test, call, ncalls, uniform, served, nops>>

\* ---- values ---------------------------------------------------------------
ObjIds == 1..3
NoObj == 0

ShuffleModes == {"None", "once_prior_train", "every_epoch", "each_epoch"}
KnownShuffleModes == {"None", "once_prior_train", "every_epoch"}
NormalizationModes ==
    {"None", "divide_255", "divide_256", "by_chanels", "by_channels"}
KnownNormalizationModes == {"None", "divide_255", "divide_256", "by_chanels"}

\* validation_split: None, or a float given as an exact dyadic fraction
NoSplit == [given |-> FALSE, num |-> 0, den |-> 1]
Fraction(n, d) == [given |-> TRUE, num |-> n, den |-> d]
SplitValues ==
    {NoSplit, Fraction(0, 1), Fraction(1, 4), Fraction(1, 2),
     Fraction(3, 4), Fraction(1, 1)}

\* Python truthiness of the two validation parameters
TruthyFlag(f) == f = "True"
TruthySplit(s) == s.given /\ s.num # 0

data_shape == <<32, 32, 3>>
n_classes == 10

Min(a, b) == IF a < b THEN a ELSE b

\* ---- numpy helpers --------------------------------------------------------
\* s[start:end] for 0 <= start <= end: clipped to the length, never an error
Slice(s, start, end) ==
    LET lo == Min(start, Len(s))
        hi == Min(end, Len(s))
    IN  [i \in 1..(hi - lo) |-> s[lo + i]]

\* s[rand_indexes]: fancy indexing by an index array
Take(s, rand_indexes) == [i \in 1..Len(rand_indexes) |-> s[rand_indexes[i]]]

\* variant: n indexes drawn with replacement
IndexesWithReplacement(n) == [1..n -> 1..n]

\* the values np.random.permutation(n) can return (1-based here)
Permutation(n) ==
    {p \in [1..n -> 1..n] : \A i, j \in 1..n : p[i] = p[j] => i = j}

Identity(n) == [i \in 1..n |-> i]

\* np.random.randint(low, high): low <= value < high
randint(low, high) == low..(high - 1)

\* ---- the decoded corpora (output of read_cifar) -----------------------------
RawImage(i) == [id |-> i, px |-> "raw", shape |-> data_shape, aug |-> <<>>]

\* train examples are 1..n, test examples follow them
read_cifar(first, n) ==
    [images |-> [i \in 1..n |-> RawImage(first + i - 1)],
     labels |-> [i \in 1..n |-> first + i - 1]]

\* ---- outcomes of a call that may raise ------------------------------------
Returned(v) == [raised |-> "none", value |-> v]
Raised(e, v) == [raised |-> e, value |-> v]

\* ---- augmentation -----------------------------------------------------------
\* One draw of augment_image: pad with zeros, crop at (init_x, init_y) with the
\* channel axis indexed by the scalar init_shape[2], mirror when flip is set.
augment_image(image, pad, init_x, init_y, flip) ==
    LET init_shape == image.shape
        new_shape == <<init_shape[1] + pad * 2, init_shape[2] + pad * 2,
                       init_shape[3]>>
        chanel == init_shape[3]          \* scalar index into axis 2
    IN  IF chanel >= new_shape[3]
        THEN Raised("IndexError", image)
        ELSE IF flip # 0
        THEN Raised("IndexError", image) \* three indices into a 2-D crop
        ELSE Returned([id |-> image.id, px |-> image.px,
                       shape |-> <<init_shape[1], init_shape[2]>>,
                       aug |-> <<init_x, init_y, flip>>])

\* line 27: the values flip = np.random.randint(0, 1) can take
flip_draws == randint(0, 1)

\* lines 21-22: the values of one crop offset
offset_draws(pad) == randint(0, pad * 2)

\* every outcome the random draws of augment_image allow
augment_image_outcomes(image, pad) ==
    {augment_image(image, pad, init_x, init_y, flip) :
        init_x \in offset_draws(pad), init_y \in offset_draws(pad),
        flip \in flip_draws}

\* augment_all_images ignores its pad argument and always pads by 4; the
\* first image whose augmentation raises ends the loop, and storing a 2-D crop
\* into the (H, W, C) row of new_images cannot broadcast.
augment_all_images(initial_images, pad) ==
    LET n == Len(initial_images)
        outcomes == [i \in 1..n |-> augment_image_outcomes(initial_images[i], 4)]
    IN  IF \E i \in 1..n : \E o \in outcomes[i] : o.raised # "none"
        THEN {Raised("IndexError", initial_images)}
        ELSE IF n > 0
        THEN {Raised("ValueError", initial_images)}
        ELSE {Returned(initial_images)}

\* ---- normalization ----------------------------------------------------------
normalize_image_by_chanel(image) ==
    [id |-> image.id, px |-> "by_chanels", shape |-> image.shape,
     aug |-> image.aug]

normalize_all_images_by_chanels(initial_images) ==
    [i \in 1..Len(initial_images) |->
        normalize_image_by_chanel(initial_images[i])]

\* images / 255 and images / 256: elementwise on the whole array
Divide(images, tag) ==
    [i \in 1..Len(images) |->
        [id |-> images[i].id, px |-> tag, shape |-> images[i].shape,
         aug |-> images[i].aug]]

\* lines 105-111: a mode that matches no branch leaves the images as they are
Normalize(images, normalization) ==
    IF normalization = "None" THEN images
    ELSE IF normalization = "divide_255" THEN Divide(images, "divide_255")
    ELSE IF normalization = "divide_256" THEN Divide(images, "divide_256")
    ELSE IF normalization = "by_chanels"
    THEN normalize_all_images_by_chanels(images)
    ELSE images

\* ---- CifarDataSet -----------------------------------------------------------
\* attrs is the set of attributes assigned so far; a field outside attrs holds
\* a placeholder and reading it raises AttributeError.
NoObject ==
    [attrs |-> {}, images |-> <<>>, labels |-> <<>>, n_classes |-> 0,
     augmentation |-> FALSE, normalization |-> "None",
     shuffle_every_epoch |-> FALSE, batch_counter |-> 0,
     epoch_images |-> <<>>, epoch_labels |-> <<>>]

\* variant: the labels are left in their old order
shuffle_images_only(images, labels, rand_indexes) ==
    [images |-> Take(images, rand_indexes),
     labels |-> labels]

shuffle_images_labels(images, labels, rand_indexes) ==
    [images |-> Take(images, rand_indexes),
     labels |-> Take(labels, rand_indexes)]

\* the permutations a shuffle of n examples may draw; the identity alone
\* stands for "no draw" where the code does not shuffle
Draws(shuffles, n) == IF shuffles THEN Permutation(n) ELSE {Identity(n)}

num_examples(d) == Len(d.labels)

\* variant: the counter survives the restart
KeepCounter(d) == [d EXCEPT !.attrs = @ \cup {"_batch_counter"}]

\* variant: the new epoch starts at its second batch
ResetCounterToOne(d) ==
    [d EXCEPT !.batch_counter = 1, !.attrs = @ \cup {"_batch_counter"}]

\* line 97: self._batch_counter = 0
ResetCounter(d) ==
    [d EXCEPT !.batch_counter = 0, !.attrs = @ \cup {"_batch_counter"}]

\* variant: the epoch arrays also replace the base arrays
StoreEpochAndBase(d, images, labels) ==
    [d EXCEPT !.epoch_images = images, !.epoch_labels = labels,
              !.images = images, !.labels = labels,
              !.attrs = @ \cup {"epoch_images", "epoch_labels"}]

\* lines 112-113: self.epoch_images = images; self.epoch_labels = labels
StoreEpoch(d, images, labels) ==
    [d EXCEPT !.epoch_images = images, !.epoch_labels = labels,
              !.attrs = @ \cup {"epoch_images", "epoch_labels"}]

\* start_new_epoch with rand_indexes the permutation drawn at line 91 (used
\* only when shuffle_every_epoch); the set of outcomes, each the object as the
\* call leaves it and the exception raised, if any
start_new_epoch(d, rand_indexes) ==
    LET d0 == ResetCounter(d)
    IN  IF "shuffle_every_epoch" \notin d0.attrs
        THEN {Raised("AttributeError", d0)}
        ELSE
          LET src == IF d0.shuffle_every_epoch
                     THEN shuffle_images_labels(d0.images, d0.labels,
                                                rand_indexes)
                     ELSE [images |-> d0.images, labels |-> d0.labels]
              augmented == IF d0.augmentation
                           THEN augment_all_images(src.images, 4)
                           ELSE {Returned(src.images)}
          IN  {IF a.raised # "none"
               THEN Raised(a.raised, d0)
               ELSE Returned(StoreEpoch(d0,
                                        Normalize(a.value, d0.normalization),
                                        src.labels))
               : a \in augmented}

\* variant: once_prior_train also sets the flag
ShufflesUnlessNone(shuffle) == shuffle # "None"

\* lines 75-81: the value given to self.shuffle_every_epoch
ShufflesEveryEpoch(shuffle) == shuffle = "every_epoch"

\* CifarDataSet.__init__; prior is the permutation of once_prior_train, first
\* the permutation of the first start_new_epoch
CifarDataSet(images, labels, classes, shuffle, normalization, aug, prior, first) ==
    LET shuffled == IF shuffle = "once_prior_train"
                    THEN shuffle_images_labels(images, labels, prior)
                    ELSE [images |-> images, labels |-> labels]
        flag == IF shuffle \in {"None", "once_prior_train", "every_epoch"}
                THEN {"shuffle_every_epoch"} ELSE {}
        d == [NoObject EXCEPT
                !.shuffle_every_epoch = ShufflesEveryEpoch(shuffle),
                !.images = shuffled.images,
                !.labels = shuffled.labels,
                !.n_classes = classes,
                !.augmentation = aug,
                !.normalization = normalization,
                !.attrs = flag \cup {"images", "labels", "n_classes",
                                     "augmentation", "normalization"}]
    IN  start_new_epoch(d, first)

\* the (prior, first) pairs of permutations a construction may draw
ConstructionDraws(shuffle, n) ==
    Draws(shuffle = "once_prior_train", n) \X Draws(shuffle = "every_epoch", n)

\* ---- CifarDataProvider ------------------------------------------------------
\* variant: the fraction itself, not its complement, sizes the training split
SplitIdxOfFraction(n, split) == (n * split.num) \div split.den

\* int(images.shape[0] * (1 - validation_split)); exact for the dyadic
\* fractions of SplitValues (and equal to the float result for 50000 and 0.1)
SplitIdx(n, split) == (n * (split.den - split.num)) \div split.den

EmptyHeap == [o \in ObjIds |-> NoObject]

\* the provider under construction: its attributes, the heap, the id of the
\* next object to allocate and the exception raised so far
NewProvider ==
    [raised |-> "none", ds |-> EmptyHeap, next |-> 1,
     train |-> NoObj, validation |-> NoObj, test |-> NoObj]

\* CifarDataSet(...) evaluated during provider construction: every provider
\* state the constructor call can leave (nothing happens after an exception)
Construct(p, images, labels, shuffle, normalization, augmentation) ==
    IF p.raised # "none" THEN {p}
    ELSE {[p EXCEPT !.raised = out.raised,
                    !.ds[p.next] = out.value,
                    !.next = @ + 1] :
            out \in UNION {CifarDataSet(images, labels, n_classes, shuffle,
                                        normalization, augmentation,
                                        dr[1], dr[2]) :
                            dr \in ConstructionDraws(shuffle, Len(labels))}}

\* self.<attr> = <the object just constructed>, skipped after an exception
BindTrain(p) == IF p.raised # "none" THEN p ELSE [p EXCEPT !.train = p.next - 1]
BindValidation(p) ==
    IF p.raised # "none" THEN p ELSE [p EXCEPT !.validation = p.next - 1]
BindTest(p) == IF p.raised # "none" THEN p ELSE [p EXCEPT !.test = p.next - 1]

\* line 166: both parameters compared with None
SplitRequested(params) ==
    params.validation_set # "None" /\ params.validation_split.given

\* lines 193-194: both parameters tested for truth
AliasRequested(params) ==
    TruthyFlag(params.validation_set) /\ ~TruthySplit(params.validation_split)

\* variant: validation is a second dataset equal to the test dataset
BindCopy(p, params) ==
    IF p.raised = "none" /\ AliasRequested(params)
    THEN [p EXCEPT !.validation = p.next,
                   !.ds[p.next] = p.ds[p.test],
                   !.next = @ + 1]
    ELSE p

BindAlias(p, params) ==
    IF p.raised = "none" /\ AliasRequested(params)
    THEN [p EXCEPT !.validation = p.test] ELSE p

\* variant: the test dataset is augmented
TestAugmentationOn == TRUE

\* line 191: augmentation=False for the test dataset
TestAugmentation == FALSE

\* CifarDataProvider.__init__: the set of provider states it can end in
CifarDataProvider(params, augmentation, ntr, nte) ==
    LET corpus == read_cifar(1, ntr)
        split_idx == SplitIdx(ntr, params.validation_split)
        withTrain ==
          IF SplitRequested(params)
          THEN UNION {
                 {BindValidation(q) :
                    q \in Construct(p, Slice(corpus.images, split_idx, ntr),
                                    Slice(corpus.labels, split_idx, ntr),
                                    params.shuffle, params.normalization,
                                    augmentation)} :
                 p \in {BindTrain(q) :
                          q \in Construct(NewProvider,
                                          Slice(corpus.images, 0, split_idx),
                                          Slice(corpus.labels, 0, split_idx),
                                          params.shuffle, params.normalization,
                                          augmentation)}}
          ELSE {BindTrain(q) :
                  q \in Construct(NewProvider, corpus.images, corpus.labels,
                                  params.shuffle, params.normalization,
                                  augmentation)}
        testCorpus == read_cifar(ntr + 1, nte)
        withTest ==
          UNION {{BindTest(q) :
                    q \in Construct(p, testCorpus.images, testCorpus.labels,
                                    params.shuffle, params.normalization,
                                    TestAugmentation)} :
                 p \in withTrain}
    IN  {BindAlias(p, params) : p \in withTest}

\* ---- next_batch -------------------------------------------------------------
NoCall ==
    [status |-> "none", obj |-> NoObj, batch_size |-> 0, restarts |-> 0,
     images_slice |-> <<>>, labels_slice |-> <<>>]

\* variant: the counter is advanced before the bounds are computed
SliceBoundsAfterIncrement(batch_counter, batch_size) ==
    [start |-> (batch_counter + 1) * batch_size,
     end |-> (batch_counter + 2) * batch_size]

\* lines 120-121
SliceBounds(batch_counter, batch_size) ==
    [start |-> batch_counter * batch_size,
     end |-> (batch_counter + 1) * batch_size]

\* variant: no size test, whatever was sliced is returned
AnySlice(images_slice, batch_size) == TRUE

\* variant: only an empty slice restarts the epoch
NonEmptySlice(images_slice, batch_size) == Len(images_slice) # 0

\* line 125, negated: the slice has the requested size
FullSlice(images_slice, batch_size) == Len(images_slice) = batch_size

\* variant: the counter advances by two
AdvanceCounterTwice(d) == [d EXCEPT !.batch_counter = @ + 2]

\* line 122: self._batch_counter += 1
AdvanceCounter(d) == [d EXCEPT !.batch_counter = @ + 1]

\* lines 120-125 of one invocation of next_batch: the slices, the object with
\* its counter advanced, and whether the slice has the requested size
next_batch_body(d, batch_size) ==
    LET start == SliceBounds(d.batch_counter, batch_size).start
        end == SliceBounds(d.batch_counter, batch_size).end
        images_slice == Slice(d.epoch_images, start, end)
        labels_slice == Slice(d.epoch_labels, start, end)
    IN  [obj |-> AdvanceCounter(d),
         start |-> start,
         images_slice |-> images_slice,
         labels_slice |-> labels_slice,
         full |-> FullSlice(images_slice, batch_size)]

\* history of the requests made of one dataset: 0 before any request, b while
\* every request was next_batch(b), -1 otherwise (sizes differed, or the client
\* called start_new_epoch itself)
NextUniform(u, batch_size) ==
    IF u = 0 \/ u = batch_size THEN batch_size ELSE -1

\* One invocation of next_batch(batch_size) on object o, reached with
\* `restarts` epoch restarts already made by the enclosing call: either it
\* returns the slices, or it runs start_new_epoch and invokes itself again
\* (line 127), which is the next step of the model.
Invoke(o, batch_size, restarts) ==
    LET r == next_batch_body(ds[o], batch_size)
    IN  IF r.full
        THEN /\ ds' = [ds EXCEPT ![o] = r.obj]
             /\ call' = [status |-> "returned", obj |-> o,
                         batch_size |-> batch_size, restarts |-> restarts,
                         images_slice |-> r.images_slice,
                         labels_slice |-> r.labels_slice]
             /\ ncalls' = [ncalls EXCEPT ![o] = @ + 1]
             /\ served' = [served EXCEPT ![o] =
                             Append(@, [batch_size |-> batch_size,
                                        start |-> r.start,
                                        images |-> r.images_slice,
                                        labels |-> r.labels_slice])]
        ELSE \E rand_indexes \in Draws(r.obj.shuffle_every_epoch,
                                       num_examples(r.obj)) :
             \E out \in start_new_epoch(r.obj, rand_indexes) :
               /\ ds' = [ds EXCEPT ![o] = out.value]
               /\ call' = [status |-> IF out.raised = "none"
                                      THEN "retry" ELSE "raised",
                           obj |-> o, batch_size |-> batch_size,
                           restarts |-> Min(restarts + 1, MaxRestarts),
                           images_slice |-> <<>>, labels_slice |-> <<>>]
               /\ ncalls' = ncalls
               /\ served' = [served EXCEPT ![o] = <<>>]

Idle == pc = "ready" /\ call.status \in {"none", "returned"}

\* the training loop calls <handle>.next_batch(batch_size)
next_batch(o, batch_size) ==
    /\ Idle
    /\ o # NoObj
    /\ Invoke(o, batch_size, 0)
    /\ uniform' = [uniform EXCEPT ![o] = NextUniform(@, batch_size)]
    /\ nops' = Min(nops + 1, MaxProviderOps)
    /\ UNCHANGED <<train_params, data_augmentation, n_train, n_test, pc, error,
                   train, validation, test>>

\* line 127: return self.next_batch(batch_size)
next_batch_recurse ==
    /\ pc = "ready"
    /\ call.status = "retry"
    /\ Invoke(call.obj, call.batch_size, call.restarts)
    /\ UNCHANGED <<train_params, data_augmentation, n_train, n_test, pc, error,
                   train, validation, test, uniform, nops>>

\* the training loop calls <handle>.start_new_epoch() itself
client_start_new_epoch(o) ==
    /\ Idle
    /\ o # NoObj
    /\ \E rand_indexes \in Draws(ds[o].shuffle_every_epoch,
                                 num_examples(ds[o])) :
       \E out \in start_new_epoch(ds[o], rand_indexes) :
         /\ ds' = [ds EXCEPT ![o] = out.value]
         /\ call' = IF out.raised = "none" THEN NoCall
                    ELSE [NoCall EXCEPT !.status = "raised", !.obj = o]
    /\ served' = [served EXCEPT ![o] = <<>>]
    /\ uniform' = [uniform EXCEPT ![o] = -1]
    /\ nops' = Min(nops + 1, MaxProviderOps)
    /\ UNCHANGED <<train_params, data_augmentation, n_train, n_test, pc, error,
                   train, validation, test, ncalls>>

\* ---- construction -------------------------------------------------------------
CifarDataProvider_init ==
    /\ pc = "new"
    /\ \E p \in CifarDataProvider(train_params, data_augmentation,
                                  n_train, n_test) :
         /\ pc' = IF p.raised = "none" THEN "ready" ELSE "failed"
         /\ error' = p.raised
         /\ ds' = p.ds
         /\ train' = p.train
         /\ validation' = p.validation
         /\ test' = p.test
    /\ UNCHANGED <<train_params, data_augmentation, n_train, n_test, call,
                   ncalls, uniform, served, nops>>

\* ---- specifications -----------------------------------------------------------
BatchSizes == 1..(MaxN + 1)

Blank ==
    /\ pc = "new"
    /\ error = "none"
    /\ ds = EmptyHeap
    /\ train = NoObj
    /\ validation = NoObj
    /\ test = NoObj
    /\ call = NoCall
    /\ ncalls = [o \in ObjIds |-> 0]
    /\ uniform = [o \in ObjIds |-> 0]
    /\ served = [o \in ObjIds |-> <<>>]
    /\ nops = 0

\* A training loop that drives the train dataset of a provider built without
\* validation parameters.
Init ==
    /\ train_params \in [validation_set : {"None"},
                         validation_split : {NoSplit},
                         shuffle : ShuffleModes,
                         normalization : NormalizationModes]
    /\ data_augmentation \in BOOLEAN
    /\ n_train \in 1..MaxN
    /\ n_test = 1
    /\ Blank

TrainNextBatch ==
    \E batch_size \in BatchSizes :
        /\ train # NoObj
        /\ ncalls[train] < MaxCalls
        /\ next_batch(train, batch_size)

TrainStartNewEpoch == train # NoObj /\ client_start_new_epoch(train)

Next ==
    \/ CifarDataProvider_init
    \/ TrainNextBatch
    \/ next_batch_recurse
    \/ TrainStartNewEpoch

Spec == Init /\ [][Next]_vars

\* A training loop with one fixed batch size (it never calls start_new_epoch
\* itself): every configuration on the small corpora, and the configuration
\* without shuffle, normalization and augmentation on corpora up to MaxPlainN.
PlainParams ==
    [validation_set |-> "None", validation_split |-> NoSplit,
     shuffle |-> "None", normalization |-> "None"]

FixedInit ==
    /\ \/ /\ train_params \in [validation_set : {"None"},
                                validation_split : {NoSplit},
                                shuffle : ShuffleModes,
                                normalization : NormalizationModes]
          /\ data_augmentation \in BOOLEAN
          /\ n_train \in 1..MaxN
       \/ /\ train_params = PlainParams
          /\ data_augmentation = FALSE
          /\ n_train \in 1..MaxPlainN
    /\ n_test = 1
    /\ Blank

FixedNextBatch ==
    \E batch_size \in 1..(MaxPlainN + 1) :
        /\ train # NoObj
        /\ ncalls[train] < MaxFixedCalls
        /\ uniform[train] \in {0, batch_size}
        /\ batch_size <= n_train + 1
        /\ next_batch(train, batch_size)

FixedNext ==
    \/ CifarDataProvider_init
    \/ FixedNextBatch
    \/ next_batch_recurse

FixedSpec == FixedInit /\ [][FixedNext]_vars

\* A client of all three handles of a provider built with every combination
\* of the validation parameters.
Handle(h) ==
    CASE h = "train" -> train
      [] h = "validation" -> validation
      [] h = "test" -> test

Handles == {"train", "validation", "test"}

ProviderInit ==
    /\ train_params \in [validation_set : {"None", "False", "True"},
                         validation_split : SplitValues,
                         shuffle : ShuffleModes,
                         normalization : {"None", "divide_255"}]
    /\ data_augmentation \in BOOLEAN
    /\ n_train = MaxN
    /\ n_test = 2
    /\ Blank

HandleNextBatch ==
    \E h \in Handles : \E batch_size \in BatchSizes :
        /\ nops < MaxProviderOps
        /\ Handle(h) # NoObj
        /\ next_batch(Handle(h), batch_size)

HandleStartNewEpoch ==
    \E h \in Handles :
        /\ nops < MaxProviderOps
        /\ Handle(h) # NoObj
        /\ client_start_new_epoch(Handle(h))

ProviderNext ==
    \/ CifarDataProvider_init
    \/ HandleNextBatch
    \/ next_batch_recurse
    \/ HandleStartNewEpoch

ProviderSpec == ProviderInit /\ [][ProviderNext]_vars

\* ---- properties -------------------------------------------------------------
Constructed == {o \in ObjIds : "epoch_images" \in ds[o].attrs}

\* the corpus read_cifar decoded for the training files
TrainCorpus == read_cifar(1, n_train)

\* shuffling, augmentation and normalization all disabled
Plain ==
    /\ train_params.shuffle = "None"
    /\ train_params.normalization = "None"
    /\ ~data_augmentation

RECURSIVE FlatImages(_)
FlatImages(batches) ==
    IF batches = <<>> THEN <<>>
    ELSE FlatImages(SubSeq(batches, 1, Len(batches) - 1))
         \o batches[Len(batches)].images

RECURSIVE FlatLabels(_)
FlatLabels(batches) ==
    IF batches = <<>> THEN <<>>
    ELSE FlatLabels(SubSeq(batches, 1, Len(batches) - 1))
         \o batches[Len(batches)].labels

\* the call in flight (or just returned) asks for a valid batch size
ValidCall ==
    /\ call.status # "none"
    /\ call.obj # NoObj
    /\ 1 <= call.batch_size
    /\ call.batch_size <= num_examples(ds[call.obj])

\* C1: a next_batch call with 1 <= batch_size <= num_examples, after any
\* sequence of such calls with varying sizes, returns exactly batch_size images
\* and batch_size labels: it never raises, a returned batch is never short or
\* empty, and a call that had to restart the epoch is about to be served a
\* full first window.
C1_ExactBatch ==
    ValidCall =>
        /\ call.status \in {"retry", "returned"}
        /\ call.status = "returned" =>
              /\ Len(call.images_slice) = call.batch_size
              /\ Len(call.labels_slice) = call.batch_size
        /\ call.status = "retry" =>
              /\ call.restarts = 1
              /\ ds[call.obj].batch_counter = 0
              /\ Len(ds[call.obj].epoch_images) >= call.batch_size

\* a call of size 2 that rolled over and returned, after calls of other sizes
C1_Witness ==
    /\ ValidCall
    /\ call.status = "returned"
    /\ call.restarts = 1
    /\ call.batch_size = 2
    /\ uniform[call.obj] = -1
    /\ ncalls[call.obj] >= 3

\* C2: without shuffle, augmentation and normalization, when batch_size b
\* divides N, the k-th of the first N/b calls next_batch(b) on a fresh dataset
\* returns the corpus window [(k-1)b : kb], and after N/b calls the returned
\* batches concatenate to the whole corpus, every example exactly once.
C2_Partition ==
    \A b \in 1..(MaxPlainN + 1) :
        LET N == n_train
            k == ncalls[train]
        IN  ( /\ Plain
              /\ pc = "ready"
              /\ call.status = "returned"
              /\ call.obj = train
              /\ uniform[train] = b
              /\ N % b = 0
              /\ k <= N \div b )
            => /\ call.images_slice =
                    Slice(TrainCorpus.images, (k - 1) * b, k * b)
               /\ call.labels_slice =
                    Slice(TrainCorpus.labels, (k - 1) * b, k * b)
               /\ Len(served[train]) = k
               /\ k = N \div b =>
                    /\ FlatImages(served[train]) = TrainCorpus.images
                    /\ FlatLabels(served[train]) = TrainCorpus.labels

\* the fourth call of next_batch(5) on 20 examples has just returned
C2_Witness ==
    /\ Plain
    /\ n_train = 20
    /\ call.status = "returned"
    /\ uniform[train] = 5
    /\ ncalls[train] = 4
    /\ FlatImages(served[train]) = TrainCorpus.images

\* C3: without shuffle, augmentation and normalization and with a constant
\* batch size b <= N, the k-th call (k = 0, 1, ...) returns the corpus window
\* that starts at (k mod floor(N/b)) * b; the calls that wrap (k > 0 and
\* k mod floor(N/b) = 0) are exactly those that restarted the epoch.
C3_Wraparound ==
    \A b \in 1..MaxPlainN :
        LET N == n_train
            k == ncalls[train] - 1
            w == IF b <= N THEN (k % (N \div b)) * b ELSE 0
        IN  ( /\ Plain
              /\ pc = "ready"
              /\ call.status = "returned"
              /\ call.obj = train
              /\ uniform[train] = b
              /\ b <= N )
            => /\ call.images_slice = Slice(TrainCorpus.images, w, w + b)
               /\ call.labels_slice = Slice(TrainCorpus.labels, w, w + b)
               /\ (call.restarts = 1) <=> (k > 0 /\ w = 0)
               /\ call.restarts <= 1

\* N = 20, b = 5: the fifth call restarted the epoch and returned [0:5]
C3_Witness ==
    /\ Plain
    /\ n_train = 20
    /\ call.status = "returned"
    /\ uniform[train] = 5
    /\ ncalls[train] = 5
    /\ call.restarts = 1
    /\ call.images_slice = Slice(TrainCorpus.images, 0, 5)

\* C4: with a constant batch size b, no batch returned during an epoch
\* reaches into the trailing N mod b positions of the epoch buffer: every
\* batch of the epoch is a full window of the current buffer that ends at or
\* before floor(N/b) * b (not short, not padded, not completed from another
\* epoch's buffer).
C4_TailDropped ==
    \A o \in Constructed :
        LET N == num_examples(ds[o])
        IN  \A i \in 1..Len(served[o]) :
                LET batch == served[o][i]
                    b == batch.batch_size
                IN  /\ batch.start = (i - 1) * b
                    /\ batch.start + b <= (N \div b) * b
                    /\ Len(batch.images) = b
                    /\ batch.images =
                         Slice(ds[o].epoch_images, batch.start, batch.start + b)
                    /\ batch.labels =
                         Slice(ds[o].epoch_labels, batch.start, batch.start + b)

\* 20 examples, b = 3: the seventh call found the 2-example tail and rolled over
C4_Witness ==
    /\ n_train = 20
    /\ call.status = "returned"
    /\ call.obj = train
    /\ uniform[train] = 3
    /\ ncalls[train] = 7
    /\ call.restarts = 1
    /\ Len(served[train]) = 1

\* a label array is aligned with an image array
Aligned(images, labels) ==
    /\ Len(images) = Len(labels)
    /\ \A i \in 1..Len(images) : labels[i] = images[i].id

\* C5: images and labels stay index-aligned: in the base arrays and in the
\* epoch buffers of every dataset, whatever the shuffle mode, and in every
\* batch next_batch returns.
C5_Aligned ==
    /\ \A o \in ObjIds :
          /\ "labels" \in ds[o].attrs => Aligned(ds[o].images, ds[o].labels)
          /\ o \in Constructed =>
                Aligned(ds[o].epoch_images, ds[o].epoch_labels)
    /\ call.status = "returned" =>
          Aligned(call.images_slice, call.labels_slice)

\* every_epoch: a batch of a reshuffled epoch whose order differs from the base
C5_Witness ==
    /\ train_params.shuffle = "every_epoch"
    /\ call.status = "returned"
    /\ call.restarts = 1
    /\ call.batch_size >= 2
    /\ call.images_slice # Slice(ds[call.obj].images, 0, call.batch_size)

\* the call in flight asks for more examples than the dataset holds
Oversized(c, heap) ==
    /\ c.status # "none"
    /\ c.obj # NoObj
    /\ c.batch_size > num_examples(heap[c.obj])

\* C6: a next_batch call with batch_size > num_examples never returns: every
\* invocation, the first and each recursive one, finds a short slice, restarts
\* the epoch and invokes next_batch again.
C6_NeverReturns ==
    [][Oversized(call', ds') =>
          /\ call'.status = "retry"
          /\ call'.restarts >= 1
          /\ ds'[call'.obj].batch_counter = 0
          /\ pc' = "ready"]_vars

\* an oversized call deep in its recursion: the restart count has saturated
C6_Witness ==
    /\ Oversized(call, ds)
    /\ call.status = "retry"
    /\ call.restarts = MaxRestarts
    /\ num_examples(ds[call.obj]) >= 1

\* C7: a dataset built with an unrecognized shuffle mode or an unrecognized
\* normalization mode fails at construction: no epoch buffer is ever
\* materialized and the provider never becomes ready to serve batches.
C7_FailsFast ==
    ( \/ train_params.shuffle \notin KnownShuffleModes
      \/ train_params.normalization \notin KnownNormalizationModes )
    => /\ pc # "ready"
       /\ Constructed = {}
       /\ call.status # "returned"

\* validation_set is true and no validation_split is given
AliasConfig ==
    /\ train_params.validation_set = "True"
    /\ ~train_params.validation_split.given

IdsOf(images) == {images[i].id : i \in 1..Len(images)}

\* validation_set is true and validation_split is a non-zero fraction
SplitConfig ==
    /\ train_params.validation_set = "True"
    /\ TruthySplit(train_params.validation_split)

\* C9: with validation_set and a fraction f both set, train holds the first
\* split_idx = floor(N * (1 - f)) examples of the decoded corpus and validation
\* the remaining ones: disjoint, sizes adding up to N, and (unless
\* once_prior_train permuted the two base arrays) train followed by validation
\* is the corpus in its original order; 50000 examples and f = 0.1 split into
\* 45000 and 5000.  Train and validation are distinct objects, and a dataset
\* no call was made on keeps its cursor at 0 while the other one is used.
C9_Split ==
    (SplitConfig /\ pc = "ready") =>
        LET f == train_params.validation_split
            N == n_train
            idx == (N * (f.den - f.num)) \div f.den
        IN  /\ train # NoObj /\ validation # NoObj
            /\ train # validation /\ validation # test /\ train # test
            /\ num_examples(ds[train]) = idx
            /\ num_examples(ds[validation]) = N - idx
            /\ IdsOf(ds[train].images) = 1..idx
            /\ IdsOf(ds[validation].images) = (idx + 1)..N
            /\ Aligned(ds[train].images, ds[train].labels)
            /\ Aligned(ds[validation].images, ds[validation].labels)
            /\ train_params.shuffle # "once_prior_train" =>
                 /\ ds[train].images \o ds[validation].images
                      = TrainCorpus.images
                 /\ ds[train].labels \o ds[validation].labels
                      = TrainCorpus.labels
            /\ \A o \in {train, validation} :
                 uniform[o] = 0 =>
                    ds[o].batch_counter = 0 /\ served[o] = <<>>
            /\ SplitIdx(50000, Fraction(1, 10)) = 45000
            /\ 50000 - SplitIdx(50000, Fraction(1, 10)) = 5000

\* f = 1/4: a batch was served by train while validation is untouched
C9_Witness ==
    /\ SplitConfig
    /\ pc = "ready"
    /\ train_params.validation_split = Fraction(1, 4)
    /\ num_examples(ds[validation]) >= 1
    /\ call.status = "returned"
    /\ call.obj = train
    /\ ds[train].batch_counter = 1
    /\ uniform[validation] = 0
    /\ ds[validation].batch_counter = 0

\* C10: the provider has a validation dataset only when validation_set is
\* true: then it is the carved-out split (non-zero fraction given) or the test
\* dataset (no fraction); with validation_set false or absent there is no
\* validation attribute, whatever validation_split is.
C10_ValidationOnlyOnRequest ==
    pc = "ready" =>
        IF train_params.validation_set = "True"
        THEN IF TruthySplit(train_params.validation_split)
             THEN validation \notin {NoObj, train, test}
             ELSE validation = test
        ELSE validation = NoObj

\* C11: with augmentation enabled, construction (its start_new_epoch) completes
\* and the epoch buffer has the shape of the base corpus: as many images, each
\* of shape (H, W, C), cropped at offsets in [0, 2P) on both axes.
C11_AugmentationCompletes ==
    (data_augmentation /\ pc # "new") =>
        /\ pc = "ready"
        /\ \A o \in Constructed :
              ds[o].augmentation =>
                 /\ Len(ds[o].epoch_images) = Len(ds[o].images)
                 /\ \A i \in 1..Len(ds[o].epoch_images) :
                      LET image == ds[o].epoch_images[i]
                      IN  /\ image.shape = data_shape
                          /\ Len(image.aug) = 3
                          /\ image.aug[1] \in offset_draws(4)
                          /\ image.aug[2] \in offset_draws(4)

\* the examples read_cifar decoded for the test files
TestIds == (n_train + 1)..(n_train + n_test)

Unaugmented(images) == \A i \in 1..Len(images) : images[i].aug = <<>>

C13_BaseUnchanged ==
    [][pc = "ready" =>
          /\ \A o \in ObjIds :
                /\ ds'[o].images = ds[o].images
                /\ ds'[o].labels = ds[o].labels
                /\ num_examples(ds'[o]) = num_examples(ds[o])
          /\ (call'.status = "returned" /\ call'.restarts = 0) =>
                \A o \in ObjIds :
                   ds'[o] = IF o = call'.obj
                            THEN [ds[o] EXCEPT !.batch_counter = @ + 1]
                            ELSE ds[o]]_vars

\* every_epoch: the second batch of a reshuffled epoch, the base still in
\* corpus order
C13_Witness ==
    /\ pc = "ready"
    /\ train_params.shuffle = "every_epoch"
    /\ n_train = 3
    /\ ds[train].images = TrainCorpus.images
    /\ ds[train].epoch_labels # ds[train].labels
    /\ call.status = "returned"
    /\ call.obj = train
    /\ call.restarts = 0
    /\ ds[train].batch_counter = 2
    /\ ncalls[train] >= 3

\* C14: a next_batch call with 1 <= batch_size <= num_examples restarts the
\* epoch at most once.  Its first invocation returns the window at the cursor
\* when that window is full, without a restart; otherwise it restarts the epoch
\* once and invokes itself, and that second invocation returns positions
\* [0 : batch_size] of the new buffer without another restart.
C14_AtMostOneRestart ==
    [][( /\ pc = "ready"
         /\ call'.status \in {"retry", "returned", "raised"}
         /\ call'.obj # NoObj
         /\ 1 <= call'.batch_size
         /\ call'.batch_size <= num_examples(ds[call'.obj]) )
       => LET o == call'.obj
              b == call'.batch_size
              before == ds[o]
              after == ds'[o]
          IN  IF call.status = "retry"
              THEN /\ call.restarts = 1
                   /\ call'.status = "returned"
                   /\ call'.restarts = 1
                   /\ after.epoch_images = before.epoch_images
                   /\ after.epoch_labels = before.epoch_labels
                   /\ call'.images_slice = Slice(after.epoch_images, 0, b)
                   /\ call'.labels_slice = Slice(after.epoch_labels, 0, b)
                   /\ after.batch_counter = 1
              ELSE IF (before.batch_counter + 1) * b <= num_examples(before)
              THEN /\ call'.status = "returned"
                   /\ call'.restarts = 0
                   /\ after.epoch_images = before.epoch_images
                   /\ after.epoch_labels = before.epoch_labels
                   /\ after.batch_counter = before.batch_counter + 1
                   /\ call'.images_slice =
                        Slice(before.epoch_images, before.batch_counter * b,
                              (before.batch_counter + 1) * b)
              ELSE /\ call'.status = "retry"
                   /\ call'.restarts = 1
                   /\ after.batch_counter = 0]_vars

\* 3 examples, b = 2: the second call met the 1-example tail, restarted once
\* and returned the first window of the new epoch
C14_Witness ==
    /\ pc = "ready"
    /\ n_train = 3
    /\ call.status = "returned"
    /\ call.obj = train
    /\ call.batch_size = 2
    /\ uniform[train] = 2
    /\ ncalls[train] = 2
    /\ call.restarts = 1
    /\ ds[train].batch_counter = 1

\* C15: the cursor is the number of batches served in the current epoch: 0
\* after construction and after every restart, one more after each returned
\* batch; after a call of a constant valid batch size b returns it lies in
\* 1..floor(N/b), and it is 1 exactly when the call rolled over or served the
\* first batch of the dataset.
C15_CursorCountsBatches ==
    \A o \in Constructed :
        LET N == num_examples(ds[o])
            b == uniform[o]
            cursor == ds[o].batch_counter
        IN  /\ cursor = Len(served[o])
            /\ (ncalls[o] = 0 /\ call.status # "retry") => cursor = 0
            /\ (call.status = "retry" /\ call.obj = o) => cursor = 0
            /\ ( /\ call.status = "returned"
                 /\ call.obj = o
                 /\ 1 <= b
                 /\ b <= N )
               => /\ cursor \in 1..(N \div b)
                  /\ (cursor = 1) <=> (call.restarts = 1 \/ ncalls[o] = 1)

\* 20 examples, b = 5: the fourth batch of the second epoch
C15_Witness ==
    /\ pc = "ready"
    /\ n_train = 20
    /\ call.status = "returned"
    /\ call.obj = train
    /\ uniform[train] = 5
    /\ ncalls[train] = 7
    /\ ds[train].batch_counter = 3
    /\ call.restarts = 0

\* C16: with once_prior_train the permutation drawn at construction is stored
\* as the base arrays (a reordering of the decoded corpus) and nothing is
\* reordered afterwards: the flag shuffle_every_epoch is off, every epoch
\* buffer lists the examples in the order of the base arrays, and no step
\* after construction, restart or not, changes the order of any epoch buffer.
C16_ShuffledOnce ==
    [][train_params.shuffle = "once_prior_train" =>
          \A o \in ObjIds :
             "epoch_images" \in ds'[o].attrs =>
                /\ ~ds'[o].shuffle_every_epoch
                /\ ds'[o].epoch_labels = ds'[o].labels
                /\ ds'[o].epoch_images =
                     Normalize(ds'[o].images, ds'[o].normalization)
                /\ Len(ds'[o].images) = Cardinality(IdsOf(ds'[o].images))
                /\ o = train' => IdsOf(ds'[o].images) = 1..n_train
                /\ pc = "ready" =>
                      /\ ds'[o].epoch_images = ds[o].epoch_images
                      /\ ds'[o].epoch_labels = ds[o].epoch_labels]_vars

\* once_prior_train: a base order that differs from the corpus order, served
\* again in the same order after an epoch restart
C16_Witness ==
    /\ pc = "ready"
    /\ train_params.shuffle = "once_prior_train"
    /\ n_train = 3
    /\ ds[train].labels # TrainCorpus.labels
    /\ ds[train].epoch_labels = ds[train].labels
    /\ call.status = "returned"
    /\ call.obj = train
    /\ call.restarts = 1
    /\ call.batch_size = 2
    /\ call.labels_slice = Slice(ds[train].labels, 0, 2)

\* the examples served since the last restart are pairwise distinct
ServedOnce(o) ==
    Cardinality(IdsOf(FlatImages(served[o]))) = Len(FlatImages(served[o]))

\* C17: with every_epoch the base arrays stay in decoded order and every epoch
\* buffer is a permutation of them: N aligned (image, label) pairs, each
\* original pair exactly once; with a constant batch size no example is served
\* twice between two restarts.
C17_EpochIsPermutation ==
    train_params.shuffle = "every_epoch" =>
        \A o \in Constructed :
            LET N == num_examples(ds[o])
            IN  /\ ds[o].shuffle_every_epoch
                /\ o = train => ds[o].labels = TrainCorpus.labels
                /\ Aligned(ds[o].images, ds[o].labels)
                /\ Len(ds[o].epoch_images) = N
                /\ Len(ds[o].epoch_labels) = N
                /\ IdsOf(ds[o].epoch_images) = IdsOf(ds[o].images)
                /\ Cardinality(IdsOf(ds[o].epoch_images)) = N
                /\ Aligned(ds[o].epoch_images, ds[o].epoch_labels)
                /\ ServedOnce(o)

\* every_epoch: the third epoch is under way, its order differs from the
\* base order, and the whole buffer has been served one example at a time
C17_Witness ==
    /\ pc = "ready"
    /\ train_params.shuffle = "every_epoch"
    /\ n_train = 3
    /\ uniform[train] = 1
    /\ ncalls[train] = 6
    /\ call.status = "returned"
    /\ ds[train].epoch_labels # ds[train].labels
    /\ IdsOf(FlatImages(served[train])) = 1..3

\* the batches served since the last restart are the buffer's leading
\* positions, in order, without a gap
ServedPrefix(o) ==
    FlatImages(served[o]) =
        Slice(ds[o].epoch_images, 0, Len(FlatImages(served[o])))

\* every batch served since the last restart has the same size
OneSizeEpoch(o) ==
    \A i, j \in 1..Len(served[o]) :
        served[o][i].batch_size = served[o][j].batch_size

\* C18 as stated: within one epoch, whatever the sequence of valid batch
\* sizes, no example is returned by two calls and none is skipped before the
\* tail.
C18_NoRepeatNoSkip ==
    \A o \in Constructed : ServedOnce(o) /\ ServedPrefix(o)

\* C18, amended: within one epoch in which every call used the same batch
\* size, no example is returned by two calls and none is skipped before the
\* tail.
C18_OneSizeNoRepeatNoSkip ==
    \A o \in Constructed : OneSizeEpoch(o) => ServedOnce(o) /\ ServedPrefix(o)

\* an epoch served in three batches of one example, after the client
\* restarted the epoch
C18_Witness ==
    /\ pc = "ready"
    /\ n_train = 3
    /\ uniform[train] = -1
    /\ Len(served[train]) = 3
    /\ OneSizeEpoch(train)
    /\ call.status = "returned"
    /\ call.batch_size = 1
    /\ call.restarts = 0

\* C19: the mirror of augment_image is a random choice made for each image:
\* whenever images are augmented, the draw of flip for an image can come out
\* as 0 (not mirrored) and as 1 (mirrored).
C19_FlipIsRandom ==
    (data_augmentation /\ pc # "new") => flip_draws = {0, 1}

====
